---- MODULE Spec2Model ----
(***************************************************************************)
(* Model of tcpserv.py: a length-prefixed request/response protocol over   *)
(* TCP with a thread-per-connection server (listen/_server) and a          *)
(* blocking client call (request), both built on the exact-read loop       *)
(* _recvn.                                                                 *)
(*                                                                         *)
(* One step of the model is one blocking socket call of one thread,        *)
(* together with the thread-local computation that follows it up to the    *)
(* next socket call.                                                       *)
(***************************************************************************)
EXTENDS Integers, Sequences, FiniteSets, TLC

\* Number of request() calls / connections of a run.
NumCalls == 2

\* Bits per byte.  The source has 8-bit bytes, so that MAX_DATA is 2**32;
\* the model keeps the four-byte length field and narrows the byte, which
\* keeps every length of the boundary (MAX_DATA-1, MAX_DATA, MAX_DATA+1)
\* a payload that can be written down.
BYTE_BITS == 1

\* Number of bytes a peer writes after its request frame.
MaxExtra == 1

\* len(struct.pack("!I", 0))
DATA_SIZE_LEN == 4

\* Number of values of one byte.
Base == 2^BYTE_BITS

MAX_DATA == 2^(DATA_SIZE_LEN*BYTE_BITS)

Calls == 1..NumCalls

\* "No socket yet" value of the listener's local variable clientsock.
NoSock == 0

----------------------------------------------------------------------------
\* Byte strings

Min(a, b) == IF a < b THEN a ELSE b

Take(s, k) == SubSeq(s, 1, k)

Drop(s, k) == SubSeq(s, k+1, Len(s))

\* "b" * n
Rep(b, n) == [i \in 1..n |-> b]

\* "".join(reversed(s))
Reverse(s) == [i \in 1..Len(s) |-> s[Len(s)+1-i]]

\* A python value handed to request() or returned by a handler: a str with
\* its bytes, or a value of another type.
Str(s) == [str |-> TRUE, bytes |-> s]

NotStr == [str |-> FALSE, bytes |-> <<>>]

----------------------------------------------------------------------------
\* struct.pack / struct.unpack with format "!I"

\* A struct.pack that takes any integer and keeps its low 32 bits.
PackUnchecked(v) == TRUE

\* struct.pack raises struct.error unless 0 <= v <= 2**32-1.
PackOK(v) == v >= 0 /\ v < Base^DATA_SIZE_LEN

\* Big-endian digits of v, most significant first.
Pack(v) == [i \in 1..DATA_SIZE_LEN |-> (v \div (Base^(DATA_SIZE_LEN-i))) % Base]

RECURSIVE UnpackFrom(_, _)
UnpackFrom(b, acc) ==
  IF b = <<>> THEN acc ELSE UnpackFrom(Tail(b), acc*Base + Head(b))

Unpack(b4) == UnpackFrom(b4, 0)

----------------------------------------------------------------------------
\* request(): argument checks

\* type(data) != str
BadType(d) == ~d.str

\* A length check that is off by one.
TooLongLax(d) == Len(d.bytes) > MAX_DATA + 1

\* len(data) > MAX_DATA
TooLong(d) == Len(d.bytes) > MAX_DATA

----------------------------------------------------------------------------
\* _server(): checks of the handler's return value

\* A thread that does not look at the type of resp.
RespAnyType(r) == FALSE

\* type(resp) != str
RespBadType(r) == ~r.str

\* len(resp) > MAX_DATA
RespTooLong(r) == Len(r.bytes) > MAX_DATA

----------------------------------------------------------------------------
\* _recvn(sock, n)

\* A loop that stops one byte early.
LoopCondShort(m, n) == m + 1 < n

\* A loop that calls sock.recv at least once.
LoopAtLeastOnce(m, n) == m < n \/ m = 0

\* while m < n
LoopCond(m, n) == m < n

\* A sock.recv that asks for n bytes whatever has been read already.
RecvArgWhole(m, n) == n

\* the argument of sock.recv: n-m
RecvArg(m, n) == n - m

\* A _recvn that keeps the chunk read last instead of appending it.
AccumulateLast(buf, pack) == pack

\* buf.append(pack) ... "".join(buf): the bytes accumulated so far.
Accumulate(buf, pack) == buf \o pack

\* Lengths of the non-empty results one sock.recv(want) may return when
\* avail bytes are waiting in the stream.
RecvLens(avail, want) == 1..Min(avail, want)

----------------------------------------------------------------------------
\* Handlers a listener is started with

Handlers == {"echo", "reverse", "faulty"}

\* The requests on which the faulty handler raises an exception.
HandlerRaises(h, r) == h = "faulty" /\ Len(r) = 2

\* The return value of handler h on request r.
HandlerValue(h, r) ==
  CASE h = "echo"    -> Str(r)
    [] h = "reverse" -> Str(Reverse(r))
    [] h = "faulty"  ->
         IF r = <<>> THEN NotStr
         ELSE IF r = <<0>> THEN Str(Rep(1, MAX_DATA+1))
         ELSE IF Len(r) = 1 THEN Str(Rep(1, MAX_DATA))
         ELSE Str(Reverse(r))

\* The digits of i > 0 in base Base, most significant first: "%d" % i.
RECURSIVE Digits(_)
Digits(i) == IF i < Base THEN <<i>> ELSE Digits(i \div Base) \o <<i % Base>>

\* Request data of the concurrent callers, pairwise distinct as the
\* docstring's "request %d" % i: the digits of i and a byte all share.
ConcData(c) == Str(Digits(c) \o <<0>>)

\* Request data of the sequential caller.
SeqData ==
  { Str(<<>>), Str(<<0>>), Str(<<1>>), Str(<<0, 1>>), Str(<<0, 1, 1>>),
    Str(Rep(1, MAX_DATA-1)), Str(Rep(1, MAX_DATA)), Str(Rep(1, MAX_DATA+1)),
    NotStr }

----------------------------------------------------------------------------
VARIABLES
  handler,     \* the handler listen() was called with
  lpc,         \* listener thread: "accept" (in its loop) | "dead"
  backlog,     \* connections established and not yet accepted
  clientsock,  \* listen()'s local variable: the connection accepted last
  cpc,         \* request() call c: where it is
  data,        \* request() call c: its argument
  cbuf,        \* request() call c: bytes accumulated by the running _recvn
  cm,          \* request() call c: m of the running _recvn
  cn,          \* request() call c: n, the decoded response length
  cret,        \* request() call c: the value returned
  copen,       \* client end of connection c: "none" | "open" | "closed"
  c2s,         \* bytes written by the client and not yet read by the server
  s2c,         \* bytes written by the server and not yet read by the client
  spc,         \* _server thread of connection c: where it is
  serr,        \* _server thread of connection c: the exception that ended it
  sbuf,        \* _server thread: bytes accumulated by the running _recvn
  sm,          \* _server thread: m of the running _recvn
  sn,          \* _server thread: n, the decoded request length
  req,         \* _server thread: req
  resp,        \* _server thread: resp
  sopen,       \* server end of connection c: "none" | "open" | "closed"
  cwrote,      \* history: all bytes the client wrote on connection c
  swrote,      \* history: all bytes the server wrote on connection c
  hcalls,      \* history: number of handler invocations for connection c
  harg,        \* history: the argument of the handler invocation
  ceof,        \* history: a recv of the client returned "" (end of stream)
  seof,        \* history: a recv of the server thread returned ""
  cone,        \* history: every recv of the client returned one byte
  sone,        \* history: every recv of the server thread returned one byte
  conns,       \* history: number of connections request() call c opened
  tasks,       \* history: number of threads started for connection c
  cextra       \* history: bytes the peer wrote after its request frame

vars == << handler, lpc, backlog, clientsock, cpc, data, cbuf, cm, cn, cret,
           copen, c2s, s2c, spc, serr, sbuf, sm, sn, req, resp, sopen,
           cwrote, swrote, hcalls, harg, ceof, seof, cone, sone, conns,
           tasks, cextra >>

cvars == << cpc, data, cbuf, cm, cn, cret, copen, cwrote, ceof, cone, conns,
           cextra >>

svars == << spc, serr, sbuf, sm, sn, req, resp, sopen, swrote, hcalls, harg,
           seof, sone, tasks >>

lvars == << lpc, backlog, clientsock >>

\* listen() has bound its socket and stands at sock.accept(); no request()
\* call has been made.
Started ==
  /\ lpc = "accept"
  /\ backlog = <<>>
  /\ clientsock = NoSock
  /\ cpc = [c \in Calls |-> "idle"]
  /\ data = [c \in Calls |-> NotStr]
  /\ cbuf = [c \in Calls |-> <<>>]
  /\ cm = [c \in Calls |-> 0]
  /\ cn = [c \in Calls |-> 0]
  /\ cret = [c \in Calls |-> <<>>]
  /\ copen = [c \in Calls |-> "none"]
  /\ c2s = [c \in Calls |-> <<>>]
  /\ s2c = [c \in Calls |-> <<>>]
  /\ spc = [c \in Calls |-> "none"]
  /\ serr = [c \in Calls |-> "none"]
  /\ sbuf = [c \in Calls |-> <<>>]
  /\ sm = [c \in Calls |-> 0]
  /\ sn = [c \in Calls |-> 0]
  /\ req = [c \in Calls |-> <<>>]
  /\ resp = [c \in Calls |-> NotStr]
  /\ sopen = [c \in Calls |-> "none"]
  /\ cwrote = [c \in Calls |-> <<>>]
  /\ swrote = [c \in Calls |-> <<>>]
  /\ hcalls = [c \in Calls |-> 0]
  /\ harg = [c \in Calls |-> <<>>]
  /\ ceof = [c \in Calls |-> FALSE]
  /\ seof = [c \in Calls |-> FALSE]
  /\ cone = [c \in Calls |-> TRUE]
  /\ sone = [c \in Calls |-> TRUE]
  /\ conns = [c \in Calls |-> 0]
  /\ tasks = [c \in Calls |-> 0]
  /\ cextra = [c \in Calls |-> <<>>]

\* The listener of the concurrent callers runs the docstring's handler or the
\* faulty one.
Init == handler \in {"reverse", "faulty"} /\ Started

\* The listener of the single caller runs any of the handlers.
InitOne == handler \in Handlers /\ Started

----------------------------------------------------------------------------
\* request(host, port, data)

\* Lines 100-106: the argument checks, socket(), connect() and struct.pack.
\* A connection that is established waits in the listener's backlog.  An
\* exception after connect() leaves request() with the socket unreferenced,
\* which closes it.
Request(c, d) ==
  /\ cpc[c] = "idle"
  /\ data' = [data EXCEPT ![c] = d]
  /\ IF BadType(d) \/ TooLong(d)
       THEN /\ cpc' = [cpc EXCEPT ![c] = "ValueError"]
            /\ UNCHANGED << copen, backlog, conns >>
       ELSE /\ backlog' = Append(backlog, c)
            /\ conns' = [conns EXCEPT ![c] = @ + 1]
            /\ IF PackOK(Len(d.bytes))
                 THEN /\ cpc' = [cpc EXCEPT ![c] = "sendLen"]
                      /\ copen' = [copen EXCEPT ![c] = "open"]
                 ELSE /\ cpc' = [cpc EXCEPT ![c] = "struct.error"]
                      /\ copen' = [copen EXCEPT ![c] = "closed"]
  /\ UNCHANGED << handler, cextra, lpc, clientsock, cbuf, cm, cn, cret, c2s, s2c,
                  cwrote, ceof, cone >>
  /\ UNCHANGED svars

\* Line 107: sock.sendall(b4)
ClientSendLen(c) ==
  /\ cpc[c] = "sendLen"
  /\ LET b4 == Pack(Len(data[c].bytes)) IN
       /\ c2s' = [c2s EXCEPT ![c] = @ \o b4]
       /\ cwrote' = [cwrote EXCEPT ![c] = @ \o b4]
  /\ cpc' = [cpc EXCEPT ![c] = "sendData"]
  /\ UNCHANGED << handler, conns, cextra, data, cbuf, cm, cn, cret, copen, s2c, ceof, cone >>
  /\ UNCHANGED << lvars, svars >>

\* Line 108: sock.sendall(data), then the entry of _recvn(sock, DATA_SIZE_LEN)
ClientSendData(c) ==
  /\ cpc[c] = "sendData"
  /\ c2s' = [c2s EXCEPT ![c] = @ \o data[c].bytes]
  /\ cwrote' = [cwrote EXCEPT ![c] = @ \o data[c].bytes]
  /\ cpc' = [cpc EXCEPT ![c] = "recvLen"]
  /\ cbuf' = [cbuf EXCEPT ![c] = <<>>]
  /\ cm' = [cm EXCEPT ![c] = 0]
  /\ UNCHANGED << handler, conns, cextra, data, cn, cret, copen, s2c, ceof, cone >>
  /\ UNCHANGED << lvars, svars >>

\* A request() that returns without sock.close().
LeaveOpen(s) == s

\* Line 112: sock.close()
CloseSock(s) == "closed"

\* Lines 109-113: one sock.recv of the running _recvn and what follows it up
\* to the next sock.recv: the loop test, the return of _recvn, struct.unpack,
\* the entry of the second _recvn, sock.close() and the return.
ClientRecvStep(c) ==
  /\ cpc[c] \in {"recvLen", "recvData"}
  /\ LET n == IF cpc[c] = "recvLen" THEN DATA_SIZE_LEN ELSE cn[c] IN
       \/ /\ s2c[c] # <<>>
          /\ \E k \in RecvLens(Len(s2c[c]), RecvArg(cm[c], n)) :
               LET pack == Take(s2c[c], k)
                   buf == Accumulate(cbuf[c], pack)
                   m == cm[c] + Len(pack)
               IN /\ s2c' = [s2c EXCEPT ![c] = Drop(@, k)]
                  /\ IF LoopCond(m, n)
                       THEN /\ cbuf' = [cbuf EXCEPT ![c] = buf]
                            /\ cm' = [cm EXCEPT ![c] = m]
                            /\ UNCHANGED << cpc, cn, cret, copen >>
                       ELSE IF cpc[c] = "recvLen" /\ LoopCond(0, Unpack(buf))
                         THEN /\ cpc' = [cpc EXCEPT ![c] = "recvData"]
                              /\ cn' = [cn EXCEPT ![c] = Unpack(buf)]
                              /\ cbuf' = [cbuf EXCEPT ![c] = <<>>]
                              /\ cm' = [cm EXCEPT ![c] = 0]
                              /\ UNCHANGED << cret, copen >>
                         ELSE /\ cpc' = [cpc EXCEPT ![c] = "returned"]
                              /\ cn' = [cn EXCEPT ![c] =
                                          IF cpc[c] = "recvLen"
                                            THEN Unpack(buf) ELSE @]
                              /\ cret' = [cret EXCEPT ![c] =
                                            IF cpc[c] = "recvLen"
                                              THEN <<>> ELSE buf]
                              /\ cbuf' = [cbuf EXCEPT ![c] = <<>>]
                              /\ cm' = [cm EXCEPT ![c] = 0]
                              /\ copen' = [copen EXCEPT ![c] = CloseSock(@)]
       \/ /\ s2c[c] = <<>>
          /\ sopen[c] = "closed"
          /\ UNCHANGED << cpc, cbuf, cm, cn, cret, copen, s2c >>
  /\ UNCHANGED << handler, conns, cextra, data, c2s, cwrote >>
  /\ UNCHANGED << lvars, svars >>

ClientRecv(c) == ClientRecvStep(c) /\ UNCHANGED << ceof, cone >>

\* The same step, observed: ceof records that a sock.recv of the call
\* returned "", cone whether every sock.recv of the call so far returned at
\* most one byte.
ClientRecvTraced(c) ==
  /\ ClientRecvStep(c)
  /\ ceof' = [ceof EXCEPT ![c] = @ \/ s2c[c] = <<>>]
  /\ cone' = [cone EXCEPT ![c] = @ /\ Len(s2c[c]) - Len(s2c'[c]) <= 1]

\* The peer of a connection goes away (its process is killed, or it is a
\* client that does not follow the protocol): its end is closed, and what it
\* had received and not read is dropped with it.
PeerAbort(c) ==
  /\ cpc[c] \in {"sendLen", "sendData", "recvLen", "recvData"}
  /\ cpc' = [cpc EXCEPT ![c] = "aborted"]
  /\ copen' = [copen EXCEPT ![c] = "closed"]
  /\ cbuf' = [cbuf EXCEPT ![c] = <<>>]
  /\ cm' = [cm EXCEPT ![c] = 0]
  /\ cn' = [cn EXCEPT ![c] = 0]
  /\ s2c' = [s2c EXCEPT ![c] = <<>>]
  /\ UNCHANGED << handler, conns, cextra, data, cret, c2s, cwrote, ceof, cone >>
  /\ UNCHANGED << lvars, svars >>

\* A peer that does not follow the protocol writes one more byte after its
\* request frame, while the server's end of the connection is not closed.
PeerExtra(c) ==
  /\ cpc[c] \in {"recvLen", "recvData"}
  /\ sopen[c] # "closed"
  /\ Len(cextra[c]) < MaxExtra
  /\ \E b \in 0..(Base - 1) :
       /\ c2s' = [c2s EXCEPT ![c] = @ \o <<b>>]
       /\ cextra' = [cextra EXCEPT ![c] = @ \o <<b>>]
  /\ UNCHANGED << handler, cpc, data, cbuf, cm, cn, cret, copen, s2c, cwrote,
                  ceof, cone, conns >>
  /\ UNCHANGED << lvars, svars >>

----------------------------------------------------------------------------
\* listen(host, port, handler)

\* A thread that works on whatever listen()'s variable clientsock refers to
\* at the time, instead of the socket it was started with.
LoopVarSock(c) == clientsock

\* The socket a _server thread works on: its own argument, bound when the
\* thread is started with the tuple (clientsock, handler).
TaskSock(c) == c

\* A connection handled where its exception reaches the accept loop.
ThreadExitKills(l) == "dead"

\* What the end of a thread started with thread.start_new_thread does to the
\* thread that started it: nothing, also when an exception ends it.
ThreadExit(l) == l

TaskEnded(c) == spc[c] \in {"done", "failed"}

\* A listener that runs _server(clientsock, handler) itself, and is not back
\* at sock.accept().
StartInline(l) == "serving"

\* Line 85: thread.start_new_thread returns at once, and the listener is
\* in its loop as before.
StartThread(l) == l

\* Lines 83-85, one turn of the loop: clientsock, addr = sock.accept() and
\* thread.start_new_thread(_server, (clientsock, handler)); the new thread
\* stands at the first sock.recv of _recvn(clientsock, DATA_SIZE_LEN).
\* Rebinding clientsock drops listen()'s reference to the connection accepted
\* before; when its thread has ended that was the last one, and the socket
\* is closed.
Accept ==
  /\ lpc = "accept"
  /\ backlog # <<>>
  /\ clientsock' = Head(backlog)
  /\ backlog' = Tail(backlog)
  /\ sopen' = [c \in Calls |->
                 IF c = Head(backlog) THEN "open"
                 ELSE IF c = clientsock /\ TaskEnded(c) THEN "closed"
                 ELSE sopen[c]]
  /\ spc' = [spc EXCEPT ![Head(backlog)] = "recvLen"]
  /\ sbuf' = [sbuf EXCEPT ![Head(backlog)] = <<>>]
  /\ sm' = [sm EXCEPT ![Head(backlog)] = 0]
  /\ tasks' = [tasks EXCEPT ![Head(backlog)] = @ + 1]
  /\ lpc' = StartThread(lpc)
  /\ UNCHANGED << handler, c2s, s2c, serr, sn, req, resp, swrote, hcalls,
                  harg, seof, sone >>
  /\ UNCHANGED cvars

----------------------------------------------------------------------------
\* _server(clientsock, handler)

\* The thread of connection c ends, in state pc ("done" after the last line,
\* "failed" by the exception e).  Its references to the socket go; the
\* socket is closed unless listen()'s clientsock still refers to it.
EndThread(c, pc, e) ==
  /\ spc' = [spc EXCEPT ![c] = pc]
  /\ serr' = [serr EXCEPT ![c] = e]
  /\ sopen' = [sopen EXCEPT ![c] = IF clientsock = c THEN @ ELSE "closed"]
  /\ lpc' = IF pc = "failed" THEN ThreadExit(lpc) ELSE lpc

\* Lines 136-138: one sock.recv of the running _recvn and what follows it up
\* to the handler call.
ServerRecvStep(c) ==
  /\ spc[c] \in {"recvLen", "recvReq"}
  /\ LET n == IF spc[c] = "recvLen" THEN DATA_SIZE_LEN ELSE sn[c]
         t == TaskSock(c)
     IN
       \/ /\ c2s[t] # <<>>
          /\ \E k \in RecvLens(Len(c2s[t]), RecvArg(sm[c], n)) :
               LET pack == Take(c2s[t], k)
                   buf == Accumulate(sbuf[c], pack)
                   m == sm[c] + Len(pack)
               IN /\ c2s' = [c2s EXCEPT ![t] = Drop(@, k)]
                  /\ IF LoopCond(m, n)
                       THEN /\ sbuf' = [sbuf EXCEPT ![c] = buf]
                            /\ sm' = [sm EXCEPT ![c] = m]
                            /\ UNCHANGED << spc, sn, req >>
                       ELSE IF spc[c] = "recvLen" /\ LoopCond(0, Unpack(buf))
                         THEN /\ spc' = [spc EXCEPT ![c] = "recvReq"]
                              /\ sn' = [sn EXCEPT ![c] = Unpack(buf)]
                              /\ sbuf' = [sbuf EXCEPT ![c] = <<>>]
                              /\ sm' = [sm EXCEPT ![c] = 0]
                              /\ UNCHANGED req
                         ELSE /\ spc' = [spc EXCEPT ![c] = "handler"]
                              /\ sn' = [sn EXCEPT ![c] =
                                          IF spc[c] = "recvLen"
                                            THEN Unpack(buf) ELSE @]
                              /\ req' = [req EXCEPT ![c] =
                                           IF spc[c] = "recvLen"
                                             THEN <<>> ELSE buf]
                              /\ sbuf' = [sbuf EXCEPT ![c] = <<>>]
                              /\ sm' = [sm EXCEPT ![c] = 0]
       \/ /\ c2s[t] = <<>>
          /\ copen[t] = "closed"
          /\ UNCHANGED << spc, sbuf, sm, sn, req, c2s >>
  /\ UNCHANGED << handler, tasks, s2c, serr, resp, sopen, swrote, hcalls, harg >>
  /\ UNCHANGED << lvars, cvars >>

ServerRecv(c) == ServerRecvStep(c) /\ UNCHANGED << seof, sone >>

\* The same step, observed: seof records that a sock.recv of the thread
\* returned "", sone whether every sock.recv of the thread so far returned
\* at most one byte.
ServerRecvTraced(c) ==
  /\ ServerRecvStep(c)
  /\ seof' = [seof EXCEPT ![c] = @ \/ c2s[c] = <<>>]
  /\ sone' = [sone EXCEPT ![c] = @ /\ Len(c2s[c]) - Len(c2s'[c]) <= 1]

\* A thread that evaluates handler(req) again where it uses resp.
InvokeTwice(k) == k + 2

\* Line 139: handler(req) is evaluated once, and its value kept in resp.
Invoke(k) == k + 1

\* Lines 139-144: resp = handler(req), the checks of resp and struct.pack.
CallHandler(c) ==
  /\ spc[c] = "handler"
  /\ hcalls' = [hcalls EXCEPT ![c] = Invoke(@)]
  /\ harg' = [harg EXCEPT ![c] = req[c]]
  /\ IF HandlerRaises(handler, req[c])
       THEN /\ EndThread(c, "failed", "handler")
            /\ UNCHANGED resp
       ELSE LET r == HandlerValue(handler, req[c]) IN
              /\ resp' = [resp EXCEPT ![c] = r]
              /\ IF RespBadType(r) \/ RespTooLong(r)
                   THEN EndThread(c, "failed", "ValueError")
                   ELSE IF ~PackOK(Len(r.bytes))
                     THEN EndThread(c, "failed", "struct.error")
                     ELSE /\ spc' = [spc EXCEPT ![c] = "sendLen"]
                          /\ UNCHANGED << serr, sopen, lpc >>
  /\ UNCHANGED << handler, tasks, backlog, clientsock, c2s, s2c, sbuf, sm, sn, req,
                  swrote, seof, sone >>
  /\ UNCHANGED cvars

\* What sendall(bytes) leaves in a stream whose reading end is open or
\* closed: a closed end takes nothing more in.
Deliver(stream, bytes, end) == IF end = "closed" THEN stream ELSE stream \o bytes

\* Line 145: clientsock.sendall(b4).  With the peer gone the call may still
\* succeed, or raise socket.error.
ServerSendLen(c) ==
  /\ spc[c] = "sendLen"
  /\ \/ /\ s2c' = [s2c EXCEPT ![TaskSock(c)] =
                     Deliver(@, Pack(Len(resp[c].bytes)), copen[TaskSock(c)])]
        /\ swrote' = [swrote EXCEPT ![TaskSock(c)] =
                        @ \o Pack(Len(resp[c].bytes))]
        /\ spc' = [spc EXCEPT ![c] = "sendResp"]
        /\ UNCHANGED << serr, sopen, lpc >>
     \/ /\ copen[TaskSock(c)] = "closed"
        /\ EndThread(c, "failed", "socket.error")
        /\ UNCHANGED << s2c, swrote >>
  /\ UNCHANGED << handler, tasks, backlog, clientsock, c2s, sbuf, sm, sn, req, resp,
                  hcalls, harg, seof, sone >>
  /\ UNCHANGED cvars

\* A thread that sends the request back instead of the handler's value.
SentReq(c) == req[c]

\* The argument of the second sendall of the thread: resp.
Sent(c) == resp[c].bytes

\* Line 146: clientsock.sendall(resp), and the end of the thread.
ServerSendResp(c) ==
  /\ spc[c] = "sendResp"
  /\ \/ /\ s2c' = [s2c EXCEPT ![TaskSock(c)] =
                     Deliver(@, Sent(c), copen[TaskSock(c)])]
        /\ swrote' = [swrote EXCEPT ![TaskSock(c)] = @ \o Sent(c)]
        /\ EndThread(c, "done", "none")
     \/ /\ copen[TaskSock(c)] = "closed"
        /\ EndThread(c, "failed", "socket.error")
        /\ UNCHANGED << s2c, swrote >>
  /\ UNCHANGED << handler, tasks, backlog, clientsock, c2s, sbuf, sm, sn, req, resp,
                  hcalls, harg, seof, sone >>
  /\ UNCHANGED cvars

----------------------------------------------------------------------------
\* Callers

\* A caller of its own issues call c, concurrently with the other callers.
RequestConc(c) == Request(c, ConcData(c))

\* A single caller issues call 1 with any of the request data.
RequestOne(c) == c = 1 /\ \E d \in SeqData : Request(c, d)

Next ==
  \/ Accept
  \/ \E c \in Calls :
       \/ RequestConc(c)
       \/ ClientSendLen(c)
       \/ ClientSendData(c)
       \/ ClientRecv(c)
       \/ PeerAbort(c)
       \/ ServerRecv(c)
       \/ CallHandler(c)
       \/ ServerSendLen(c)
       \/ ServerSendResp(c)

Spec == Init /\ [][Next]_vars

\* One call, every request data, and the reads observed.
NextOne ==
  \/ Accept
  \/ \E c \in Calls :
       \/ RequestOne(c)
       \/ ClientSendLen(c)
       \/ ClientSendData(c)
       \/ ClientRecvTraced(c)
       \/ PeerAbort(c)
       \/ ServerRecvTraced(c)
       \/ CallHandler(c)
       \/ ServerSendLen(c)
       \/ ServerSendResp(c)

SpecOne == InitOne /\ [][NextOne]_vars

\* The concurrent callers, and the reads observed.
NextObs ==
  \/ Accept
  \/ \E c \in Calls :
       \/ RequestConc(c)
       \/ ClientSendLen(c)
       \/ ClientSendData(c)
       \/ ClientRecvTraced(c)
       \/ PeerAbort(c)
       \/ ServerRecvTraced(c)
       \/ CallHandler(c)
       \/ ServerSendLen(c)
       \/ ServerSendResp(c)

SpecObs == Init /\ [][NextObs]_vars

\* The call made last.
Later == NumCalls

\* The steps of request() call c after connect().
ClientStep(c) ==
  \/ ClientSendLen(c)
  \/ ClientSendData(c)
  \/ ClientRecv(c)

\* The steps of the thread of connection c.
ServerStep(c) ==
  \/ ServerRecv(c)
  \/ CallHandler(c)
  \/ ServerSendLen(c)
  \/ ServerSendResp(c)

Serve(c) == ClientStep(c) \/ ServerStep(c)

\* Request data of a few bytes.
ShortData == {Str(<<>>), Str(<<0>>), Str(<<1, 0>>), Str(<<0, 1, 1>>)}

\* A single peer issues call 1 with short request data.
RequestShort(c) == c = 1 /\ \E d \in ShortData : Request(c, d)

\* One peer that sends its request as request() does, may go away, and
\* may write more than its frame.
NextPeer ==
  \/ Accept
  \/ \E c \in Calls :
       \/ RequestShort(c)
       \/ Serve(c)
       \/ PeerAbort(c)
       \/ PeerExtra(c)

SpecPeer == InitOne /\ [][NextPeer]_vars

\* The concurrent callers, none of which goes away.
NextStay ==
  \/ Accept
  \/ \E c \in Calls :
       \/ RequestConc(c)
       \/ Serve(c)

\* The concurrent callers, where the listener thread, the caller of the
\* later call and the thread of its connection are scheduled again and
\* again (threads of the operating system); nothing is assumed of the
\* other calls and their threads, which may stand still anywhere.
SpecLater ==
  /\ Init
  /\ [][NextStay]_vars
  /\ WF_vars(Accept)
  /\ WF_vars(ClientStep(Later))
  /\ WF_vars(ServerStep(Later))

\* A single caller that does not go away issues call 1 with any of the
\* request data.
NextOneStay ==
  \/ Accept
  \/ \E c \in Calls :
       \/ RequestOne(c)
       \/ Serve(c)

\* The single caller, where the listener thread, the caller and the thread
\* of every connection are scheduled again and again, and the peer never
\* goes away.
SpecFair ==
  /\ InitOne
  /\ [][NextOneStay]_vars
  /\ WF_vars(Accept)
  /\ \A c \in Calls : WF_vars(ClientStep(c)) /\ WF_vars(ServerStep(c))

----------------------------------------------------------------------------
\* Properties

\* The value the handler of the listener returns on the payload of call c.
Expected(c) == HandlerValue(handler, data[c].bytes).bytes

\* C1: whenever a request() call returns, the value it returns is exactly
\* handler(payload), for every handler and for each of the calls made against
\* the same listener, one after the other or overlapping.
EndToEnd ==
  \A c \in Calls : cpc[c] = "returned" => cret[c] = Expected(c)

\* Both calls have returned, under the reversing handler, with responses
\* that differ from the requests.
EndToEndWitness ==
  /\ handler = "reverse"
  /\ \A c \in {1, 2} :
       /\ cpc[c] = "returned"
       /\ cret[c] = Reverse(data[c].bytes)
       /\ cret[c] # data[c].bytes

\* C2: with pairwise distinct payloads in flight concurrently, whatever a
\* client has read of its response is a prefix of the frame of
\* handler(its own payload), and a returned response is never the response
\* computed for another client's request.
NoCrossTalk ==
  \A c \in Calls :
    /\ cpc[c] \in {"recvLen", "recvData", "returned"} =>
         LET frame == Pack(Len(Expected(c))) \o Expected(c)
         IN /\ Len(swrote[c]) <= Len(frame)
            /\ swrote[c] = SubSeq(frame, 1, Len(swrote[c]))
    /\ cpc[c] = "returned" =>
         /\ cret[c] = Expected(c)
         /\ \A j \in Calls \ {c} :
              hcalls[j] > 0 /\ resp[j].str => cret[c] # resp[j].bytes

\* Two clients are reading their responses at the same time, and one of
\* them has its response while the other is still in the middle of its own.
NoCrossTalkWitness ==
  /\ handler = "reverse"
  /\ cpc[1] = "returned"
  /\ cpc[2] = "recvData"
  /\ cm[2] > 0
  /\ hcalls[1] = 1 /\ hcalls[2] = 1

\* C3 (as claimed), in the case the claim names: when the peer has closed
\* right after sending only the length prefix and an underlying read of the
\* exact-read reports the end of the stream before the n declared bytes are
\* accumulated, the reading thread has failed with ConnectionClosed.
PrematureCloseDetected ==
  \A c \in Calls :
    (seof[c] /\ cpc[c] = "aborted" /\ Len(cwrote[c]) = DATA_SIZE_LEN) =>
      spc[c] = "failed" /\ serr[c] = "ConnectionClosed"

ClientDisconnectDetected ==
  \A c \in Calls : ceof[c] => cpc[c] = "ConnectionClosed"

\* The number of bytes of connection c the server thread has consumed.
Consumed(c) == Len(cwrote[c]) - Len(c2s[c])

\* The handler runs only on a request that has arrived in full: the prefix
\* and the n bytes it declares have been consumed, and are the argument.
HandlerAfterRequest(c) ==
  hcalls[c] > 0 =>
    /\ Len(cwrote[c]) >= DATA_SIZE_LEN
    /\ LET n == Unpack(SubSeq(cwrote[c], 1, DATA_SIZE_LEN)) IN
         /\ Consumed(c) = DATA_SIZE_LEN + n
         /\ harg[c] = SubSeq(cwrote[c], DATA_SIZE_LEN + 1, DATA_SIZE_LEN + n)

\* The complete response frame of connection c has been written.
ResponseWritten(c) ==
  /\ resp[c].str
  /\ swrote[c] = Pack(Len(resp[c].bytes)) \o resp[c].bytes

ClosedAfterResponse ==
  \A c \in Calls : spc[c] = "done" => sopen[c] = "closed"

\* C8: however the request frame and the response frame are split over the
\* underlying reads, the exact reads give the declared length and exactly
\* the payload that was framed.
RoundTripFragmented ==
  \A c \in Calls :
    /\ spc[c] \in {"handler", "sendLen", "sendResp", "done", "failed"} =>
         /\ sn[c] = Len(data[c].bytes)
         /\ req[c] = data[c].bytes
    /\ cpc[c] = "returned" =>
         /\ cn[c] = Len(resp[c].bytes)
         /\ cret[c] = resp[c].bytes

\* The longest request that can be framed has been read one byte per
\* sock.recv, prefix and payload, and so has its response.
RoundTripFragmentedWitness ==
  /\ Len(data[1].bytes) = MAX_DATA - 1
  /\ sone[1] /\ cone[1]
  /\ cpc[1] = "returned"
  /\ req[1] = data[1].bytes
  /\ Len(cret[1]) = MAX_DATA - 1

\* C9: request() with data that is no str, or longer than MAX_DATA, raises
\* ValueError before a connection is opened: no socket, nothing in the
\* listener's backlog, no byte written, and the call is over.
OversizeRejected ==
  \A c \in Calls :
    (cpc[c] # "idle" /\ (~data[c].str \/ Len(data[c].bytes) > MAX_DATA)) =>
      /\ cpc[c] = "ValueError"
      /\ copen[c] = "none"
      /\ sopen[c] = "none"
      /\ \A i \in 1..Len(backlog) : backlog[i] # c
      /\ cwrote[c] = <<>>
      /\ ~ENABLED ClientSendLen(c)

\* request() has refused a payload of MAX_DATA + 1 bytes.
OversizeRejectedWitness ==
  /\ cpc[1] = "ValueError"
  /\ data[1].str
  /\ Len(data[1].bytes) = MAX_DATA + 1

\* C10 (as claimed): a payload of exactly MAX_DATA bytes is encoded without
\* error, as request data and as the handler's return value.
BoundaryAccepted ==
  \A c \in Calls :
    /\ (cpc[c] # "idle" /\ data[c].str /\ Len(data[c].bytes) = MAX_DATA) =>
         cpc[c] \notin {"ValueError", "struct.error"}
    /\ (hcalls[c] > 0 /\ resp[c].str /\ Len(resp[c].bytes) = MAX_DATA) =>
         spc[c] # "failed"

\* The 4 bytes b read as a big-endian unsigned integer.
BigEndian(b) ==
  b[1]*Base^3 + b[2]*Base^2 + b[3]*Base + b[4]

\* The bytes w written on one direction of a connection are nothing, or the
\* frame of payload p, or that frame less its payload: a prefix that is
\* whole, decodes to len(p) and stands for a length below 2^32.
FrameOf(w, p) ==
  \/ w = <<>>
  \/ /\ Len(w) >= DATA_SIZE_LEN
     /\ BigEndian(Take(w, DATA_SIZE_LEN)) = Len(p)
     /\ Len(p) >= 0
     /\ Len(p) < MAX_DATA
     /\ Drop(w, DATA_SIZE_LEN) \in {<<>>, p}

\* C11: whatever has been written on a connection, by request() or by the
\* _server thread, is at most one frame whose 4-byte prefix decodes
\* big-endian to the length of the payload that follows it, a length in
\* 0..2^32-1: no prefix is ever the wrapped-around length of a longer
\* payload.
WireFrames ==
  \A c \in Calls :
    /\ FrameOf(cwrote[c], data[c].bytes)
    /\ FrameOf(swrote[c], resp[c].bytes)

\* Both frames of a round trip with the longest payload that can be encoded
\* have been written in full.
WireFramesWitness ==
  /\ Len(data[1].bytes) = MAX_DATA - 1
  /\ Len(cwrote[1]) = DATA_SIZE_LEN + MAX_DATA - 1
  /\ Len(resp[1].bytes) = MAX_DATA - 1
  /\ Len(swrote[1]) = DATA_SIZE_LEN + MAX_DATA - 1

\* C12: a connection that waits is accepted whatever the threads of the
\* connections accepted before are doing, and a later call whose handler
\* does not fail returns, although the earlier calls and their threads may
\* make no step any more.
LaterServed ==
  /\ [](backlog # <<>> => ENABLED Accept)
  /\ (cpc[Later] = "sendLen" /\ ~HandlerRaises(handler, data[Later].bytes))
       ~> (cpc[Later] = "returned")

\* The later call has returned while the thread of a connection accepted
\* before it still waits for its request, or stands before the handler.
LaterServedWitness ==
  /\ cpc[Later] = "returned"
  /\ clientsock = Later
  /\ \E c \in Calls \ {Later} : spc[c] \in {"recvLen", "recvReq", "handler"}

\* C13: one thread is started for every accepted connection and none for
\* another; a thread invokes the handler at most once, has invoked it once
\* when it is past line 139, stands ready to invoke it when it has read the
\* prefix and the n bytes after it, and the argument is those n bytes, the
\* payload of the request.
HandlerOnce ==
  \A c \in Calls :
    /\ tasks[c] = (IF sopen[c] = "none" THEN 0 ELSE 1)
    /\ hcalls[c] <= 1
    /\ hcalls[c] = 1 <=> spc[c] \in {"sendLen", "sendResp", "done", "failed"}
    /\ spc[c] = "handler" =>
         /\ Len(cwrote[c]) - Len(c2s[c]) = DATA_SIZE_LEN + sn[c]
         /\ req[c] = data[c].bytes
         /\ ENABLED CallHandler(c)
    /\ hcalls[c] = 1 =>
         /\ harg[c] = data[c].bytes
         /\ Len(harg[c]) = sn[c]

\* Every connection has been accepted and its thread has invoked the
\* handler.
HandlerOnceWitness ==
  \A c \in Calls : tasks[c] = 1 /\ hcalls[c] = 1 /\ harg[c] = data[c].bytes

\* What the handler of the listener returned to the thread of connection c.
Returned(c) == HandlerValue(handler, harg[c])

\* The handler has returned to the thread of connection c.
HandlerReturned(c) == hcalls[c] > 0 /\ ~HandlerRaises(handler, harg[c])

\* C14: when the handler has returned a value that is not a str, or a str
\* of more than MAX_DATA bytes, the thread has ended by ValueError and not
\* a byte has been written to the connection; bytes are written to a
\* connection only after the handler has returned a str of at most MAX_DATA
\* bytes.
ResponseValidated ==
  \A c \in Calls :
    /\ (HandlerReturned(c) /\
          (~Returned(c).str \/ Len(Returned(c).bytes) > MAX_DATA)) =>
         /\ spc[c] = "failed"
         /\ serr[c] = "ValueError"
         /\ swrote[c] = <<>>
         /\ s2c[c] = <<>>
    /\ swrote[c] # <<>> =>
         /\ HandlerReturned(c)
         /\ Returned(c).str
         /\ Len(Returned(c).bytes) <= MAX_DATA

\* A handler has returned a value that is not a str, and the thread has
\* ended by ValueError.
ResponseValidatedWitness ==
  /\ HandlerReturned(1)
  /\ ~Returned(1).str
  /\ spc[1] = "failed"
  /\ serr[1] = "ValueError"

\* The handler of the listener returns a str of at most MAX_DATA bytes on
\* the payload of call c.
HandlerValid(c) ==
  /\ ~HandlerRaises(handler, data[c].bytes)
  /\ HandlerValue(handler, data[c].bytes).str
  /\ Len(HandlerValue(handler, data[c].bytes).bytes) <= MAX_DATA

\* C15 (as claimed): with every thread scheduled again and again, no peer
\* going away and a handler that returns a valid payload, a request() call
\* that stands before its first sendall returns, and the thread of the
\* connection of such a call ends.
RoundTripLive ==
  \A c \in Calls :
    /\ (cpc[c] = "sendLen" /\ HandlerValid(c)) ~> (cpc[c] = "returned")
    /\ (spc[c] = "recvLen" /\ cpc[c] # "struct.error") ~> TaskEnded(c)

\* The request frame of call c.
RequestFrame(c) == Pack(Len(data[c].bytes)) \o data[c].bytes

\* C16: a request() call opens at most one connection; what it has written
\* on it is nothing, the prefix, or the prefix and the payload of its one
\* request frame; it has read a byte of the response only when the whole
\* frame is written; and when it has returned, the frame is written and
\* its socket is closed.
RequestThenResponse ==
  \A c \in Calls :
    /\ conns[c] = (IF copen[c] = "none" THEN 0 ELSE 1)
    /\ Len(cwrote[c]) \in {0, DATA_SIZE_LEN, Len(RequestFrame(c))}
    /\ cwrote[c] = Take(RequestFrame(c), Len(cwrote[c]))
    /\ (cbuf[c] # <<>> \/ cm[c] > 0 \/ cpc[c] \in {"recvData", "returned"}) =>
         cwrote[c] = RequestFrame(c)
    /\ cpc[c] = "returned" =>
         /\ conns[c] = 1
         /\ cwrote[c] = RequestFrame(c)
         /\ copen[c] = "closed"

\* Every call has returned, each over a connection of its own.
RequestThenResponseWitness ==
  \A c \in Calls : cpc[c] = "returned" /\ conns[c] = 1 /\ copen[c] = "closed"

\* request() call c has been made with the empty str to an echo listener.
EmptyCall(c) == handler = "echo" /\ cpc[c] # "idle" /\ data[c] = Str(<<>>)

\* C17: in a call with the empty payload to an echo listener each side
\* writes at most the 4 prefix bytes of the length 0 and nothing else; the
\* _recvn of 0 bytes returns "" without a sock.recv, so that the thread that
\* has read the prefix is at the handler, with "" as its argument, and the
\* client that has read the prefix has returned, with "" as its value.
ZeroLength ==
  \A c \in Calls : EmptyCall(c) =>
    /\ cwrote[c] \in {<<>>, Rep(0, DATA_SIZE_LEN)}
    /\ swrote[c] \in {<<>>, Rep(0, DATA_SIZE_LEN)}
    /\ spc[c] # "recvReq"
    /\ cpc[c] # "recvData"
    /\ spc[c] = "recvLen" => sm[c] < DATA_SIZE_LEN
    /\ cpc[c] = "recvLen" => cm[c] < DATA_SIZE_LEN
    /\ hcalls[c] > 0 => harg[c] = <<>>
    /\ cpc[c] = "returned" => cret[c] = <<>>

\* The call with the empty payload has returned, and the thread of its
\* connection has run to its end.
ZeroLengthWitness ==
  /\ EmptyCall(1)
  /\ cpc[1] = "returned"
  /\ spc[1] = "done"
  /\ Len(cwrote[1]) = DATA_SIZE_LEN
  /\ Len(swrote[1]) = DATA_SIZE_LEN

\* The number of bytes the thread of connection c has taken from the
\* stream of its connection.
Taken(c) == Len(cwrote[c]) + Len(cextra[c]) - Len(c2s[c])

\* C18: a running _recvn(sock, n) has accumulated m bytes, 0 <= m < n,
\* before each sock.recv, and returns exactly n bytes; the thread that reads
\* the prefix has taken no byte after it from the stream, and the thread
\* that has read a request frame declaring n bytes has taken exactly 4 + n
\* bytes, whatever the peer wrote after its frame; likewise for the two
\* _recvn calls of request().
NoOverRead ==
  \A c \in Calls :
    /\ spc[c] = "none" => Taken(c) = 0
    /\ spc[c] = "recvLen" =>
         /\ 0 <= sm[c] /\ sm[c] < DATA_SIZE_LEN
         /\ Len(sbuf[c]) = sm[c]
         /\ Taken(c) = sm[c]
    /\ spc[c] = "recvReq" =>
         /\ 0 <= sm[c] /\ sm[c] < sn[c]
         /\ Len(sbuf[c]) = sm[c]
         /\ Taken(c) = DATA_SIZE_LEN + sm[c]
    /\ spc[c] \in {"handler", "sendLen", "sendResp", "done", "failed"} =>
         /\ Len(req[c]) = sn[c]
         /\ Taken(c) = DATA_SIZE_LEN + sn[c]
         /\ Len(c2s[c]) <= Len(cextra[c])
    /\ cpc[c] = "recvLen" =>
         /\ 0 <= cm[c] /\ cm[c] < DATA_SIZE_LEN
         /\ Len(cbuf[c]) = cm[c]
         /\ Len(swrote[c]) - Len(s2c[c]) = cm[c]
    /\ cpc[c] = "recvData" =>
         /\ 0 <= cm[c] /\ cm[c] < cn[c]
         /\ Len(cbuf[c]) = cm[c]
         /\ Len(swrote[c]) - Len(s2c[c]) = DATA_SIZE_LEN + cm[c]
    /\ cpc[c] = "returned" =>
         /\ Len(cret[c]) = cn[c]
         /\ Len(swrote[c]) - Len(s2c[c]) = DATA_SIZE_LEN + cn[c]

\* The thread has read a frame with a payload and stands before the
\* handler, and the byte the peer wrote after the frame is still in the
\* stream.
NoOverReadWitness ==
  /\ spc[1] = "handler"
  /\ sn[1] > 0
  /\ cextra[1] # <<>>
  /\ c2s[1] = cextra[1]

====
